---- MODULE Spec2Model ----
(***************************************************************************)
(* Model of src/app.py: the poker test for pseudo-random numbers.          *)
(*                                                                         *)
(* Numbers.  Python floats are modelled by exact rationals.  An input      *)
(* number u is a pair <<numerator, denominator>>; a computed float         *)
(* (expected count, contribution, statistic) is a mixed number             *)
(* [int, num, den] = int + num/den with 0 <= num < den in lowest terms,    *)
(* so that equal values have equal representations and no intermediate     *)
(* product leaves the 32-bit range of the model checker.                   *)
(* Probabilities and the critical value are decimal literals with four     *)
(* decimals and are held in units of 1/ESCALA.                             *)
(*                                                                         *)
(* Digit strings are sequences over 0..9.                                  *)
(***************************************************************************)
EXTENDS Integers, Sequences, FiniteSets, TLC

VARIABLES numeros, k, pc, u, d, cat, clasificaciones, conteo, esperadas,
          contribuciones, chi2, idx, gl, resultado, chi2_crit, decision, error

vars == <<numeros, k, pc, u, d, cat, clasificaciones, conteo, esperadas,
          contribuciones, chi2, idx, gl, resultado, chi2_crit, decision, error>>

(***************************************************************************)
(* Bounds of the model                                                     *)
(***************************************************************************)
MaxN == 3
Den == 997
ChiSpan == 60

(***************************************************************************)
(* Program constants                                                       *)
(***************************************************************************)
ESCALA == 10000
DECIMALES == 5
CHI2_CRITICO_95_G6 == 125916

CATS == <<"todos_distintos", "un_par", "dos_pares", "tercia",
          "full_house", "poker", "quintilla">>

PROBS == [c \in {CATS[j] : j \in 1..Len(CATS)} |->
            CASE c = "todos_distintos" -> 3024
              [] c = "un_par"          -> 5040
              [] c = "dos_pares"       -> 1080
              [] c = "tercia"          -> 720
              [] c = "full_house"      -> 90
              [] c = "poker"           -> 45
              [] c = "quintilla"       -> 1]

(***************************************************************************)
(* Exact rational arithmetic standing for float arithmetic                 *)
(***************************************************************************)
RECURSIVE GCD(_, _)
GCD(a, b) == IF b = 0 THEN a ELSE GCD(b, a % b)

RatOf(num, den) ==
    LET q == num \div den
        r == num % den
        g == GCD(den, r)
    IN  [int |-> q, num |-> r \div g, den |-> den \div g]

Zero == [int |-> 0, num |-> 0, den |-> 1]

RatAdd(x, y) ==
    LET g == GCD(x.den, y.den)
        L == (x.den \div g) * y.den
        f == x.num * (L \div x.den) + y.num * (L \div y.den)
        r == f % L
        h == GCD(L, r)
    IN  [int |-> x.int + y.int + (f \div L), num |-> r \div h, den |-> L \div h]

RatPos(x) == x.int > 0 \/ (x.int = 0 /\ x.num > 0)

\* a/b <= c/e for 0 <= a < b and 0 <= c < e, by comparing continued fractions
RECURSIVE FracLeq(_, _, _, _)
FracLeq(a, b, c, e) ==
    IF a = 0 THEN TRUE
    ELSE IF c = 0 THEN FALSE
    ELSE LET q1 == e \div c
             q2 == b \div a
         IN  IF q1 < q2 THEN TRUE
             ELSE IF q1 > q2 THEN FALSE
             ELSE FracLeq(e % c, c, b % a, a)

RatLeq(x, y) ==
    \/ x.int < y.int
    \/ x.int = y.int /\ FracLeq(x.num, x.den, y.num, y.den)

RatLt(x, y) == RatLeq(x, y) /\ x # y

(***************************************************************************)
(* extraer_digitos                                                         *)
(***************************************************************************)
RECURSIVE Pow10(_)
Pow10(n) == IF n = 0 THEN 1 ELSE 10 * Pow10(n - 1)

RECURSIVE DecimalDigits(_)
DecimalDigits(n) == IF n < 10 THEN <<n>> ELSE Append(DecimalDigits(n \div 10), n % 10)

RECURSIVE ZeroPad(_, _)
ZeroPad(s, w) == IF Len(s) >= w THEN s ELSE ZeroPad(<<0>> \o s, w)

\* f"{n:0{w}d}"
FormatInt(n, w) == ZeroPad(DecimalDigits(n), w)

\* a plausible slip: rounding to the nearest integer instead of truncating
extraer_digitos_redondeo(x, w) ==
    FormatInt((2 * x[1] * Pow10(w) + x[2]) \div (2 * x[2]), w)

extraer_digitos(x, w) ==
    LET n == (x[1] * Pow10(w)) \div x[2]
    IN  FormatInt(n, w)

(***************************************************************************)
(* clasificar_poker                                                        *)
(***************************************************************************)
\* Counter(digitos): each distinct digit with its number of occurrences
Counter(s) ==
    [x \in {s[j] : j \in 1..Len(s)} |-> Cardinality({j \in 1..Len(s) : s[j] = x})]

\* sorted(c.values(), reverse=True)
RECURSIVE SortedValuesDesc(_, _)
SortedValuesDesc(c, S) ==
    IF S = {} THEN <<>>
    ELSE LET m == CHOOSE x \in S : \A y \in S : c[y] <= c[x]
         IN  <<c[m]>> \o SortedValuesDesc(c, S \ {m})

Rep(s) == LET c == Counter(s) IN SortedValuesDesc(c, DOMAIN c)

\* a plausible slip: the branch for [2, 2, 1] is missing
clasificar_poker_sin_dos_pares(s) ==
    LET rep == Rep(s)
    IN  IF rep = <<1, 1, 1, 1, 1>> THEN "todos_distintos"
        ELSE IF rep = <<2, 1, 1, 1>> THEN "un_par"
        ELSE IF rep = <<3, 1, 1>> THEN "tercia"
        ELSE IF rep = <<3, 2>> THEN "full_house"
        ELSE IF rep = <<4, 1>> THEN "poker"
        ELSE IF rep = <<5>> THEN "quintilla"
        ELSE "otra"

\* a plausible slip: the results of [3, 2] and [4, 1] are exchanged
clasificar_poker_intercambio(s) ==
    LET rep == Rep(s)
    IN  IF rep = <<1, 1, 1, 1, 1>> THEN "todos_distintos"
        ELSE IF rep = <<2, 1, 1, 1>> THEN "un_par"
        ELSE IF rep = <<2, 2, 1>> THEN "dos_pares"
        ELSE IF rep = <<3, 1, 1>> THEN "tercia"
        ELSE IF rep = <<3, 2>> THEN "poker"
        ELSE IF rep = <<4, 1>> THEN "full_house"
        ELSE IF rep = <<5>> THEN "quintilla"
        ELSE "otra"

clasificar_poker(s) ==
    LET rep == Rep(s)
    IN  IF rep = <<1, 1, 1, 1, 1>> THEN "todos_distintos"
        ELSE IF rep = <<2, 1, 1, 1>> THEN "un_par"
        ELSE IF rep = <<2, 2, 1>> THEN "dos_pares"
        ELSE IF rep = <<3, 1, 1>> THEN "tercia"
        ELSE IF rep = <<3, 2>> THEN "full_house"
        ELSE IF rep = <<4, 1>> THEN "poker"
        ELSE IF rep = <<5>> THEN "quintilla"
        ELSE "otra"

(***************************************************************************)
(* prueba_poker                                                            *)
(***************************************************************************)
\* the value a division by zero produces: the call raises ZeroDivisionError
Raises == [int |-> 0, num |-> 0, den |-> 0]

Division(a, b) == IF b = 0 THEN Raises ELSE RatOf(a, b)

\* a plausible slip: no guard on the expected count
Contribucion_sin_guarda(o, e) ==
    LET En  == e.int * e.den + e.num
        dif == En - o * e.den
    IN  Division(dif * dif, e.den * En)

\* a plausible slip: (e - o) * 2 / e instead of (e - o) ** 2 / e
Contribucion_doble(o, e) ==
    LET En  == e.int * e.den + e.num
        dif == En - o * e.den
    IN  IF RatPos(e) THEN Division(2 * dif, En) ELSE Zero

\* c = (e - o) ** 2 / e if e > 0 else 0, with e = En / e.den
Contribucion(o, e) ==
    LET En  == e.int * e.den + e.num
        dif == En - o * e.den
    IN  IF RatPos(e) THEN Division(dif * dif, e.den * En) ELSE Zero

\* a plausible slip: the number of categories instead of one less
GradosDeLibertad_sin_restar == Len(CATS)

GradosDeLibertad == Len(CATS) - 1

\* a plausible slip: strict comparison
Decision_estricta(x, crit) == IF RatLt(x, crit) THEN "no_se_rechaza" ELSE "se_rechaza"

Decision(x, crit) == IF RatLeq(x, crit) THEN "no_se_rechaza" ELSE "se_rechaza"

NoFn == [x \in {} |-> Zero]

(***************************************************************************)
(* Inputs                                                                  *)
(***************************************************************************)
\* 0.00000, 0.14285, 0.12500, 0.11220, 0.25000, 0.00111, 0.01111, 0.99999..
Samples == {<<0, 1>>, <<1, 7>>, <<1, 8>>, <<561, 5000>>, <<1, 4>>,
            <<1, 900>>, <<1, 90>>, <<996, 997>>}

Ks == {2, 3, 4, 5, 6}

ValidKs == {3, 4, 5}

RECURSIVE SeqsUpTo(_, _)
SeqsUpTo(S, n) ==
    IF n = 0 THEN {<<>>}
    ELSE LET prev == SeqsUpTo(S, n - 1)
         IN  prev \cup {Append(s, x) : s \in {t \in prev : Len(t) = n - 1}, x \in S}

Idle ==
    /\ u = <<0, 1>> /\ d = <<>> /\ cat = ""
    /\ clasificaciones = <<>>
    /\ conteo = NoFn /\ esperadas = NoFn /\ contribuciones = NoFn
    /\ chi2 = Zero /\ idx = 1 /\ gl = 0
    /\ resultado = <<>> /\ chi2_crit = Zero /\ decision = "" /\ error = ""

\* a call prueba_poker(numeros, k) followed by the report of the main block
Init ==
    /\ numeros \in SeqsUpTo(Samples, MaxN)
    /\ k \in Ks
    /\ pc = "bucle"
    /\ Idle

\* for u in numeros  (line 79)
TomarNumero ==
    /\ pc = "bucle"
    /\ Len(clasificaciones) < Len(numeros)
    /\ u' = numeros[Len(clasificaciones) + 1]
    /\ pc' = "extraer"
    /\ UNCHANGED <<numeros, k, d, cat, clasificaciones, conteo, esperadas,
                   contribuciones, chi2, idx, gl, resultado, chi2_crit,
                   decision, error>>

\* d = extraer_digitos(u, k)  (line 80)
ExtraerDigitos ==
    /\ pc = "extraer"
    /\ d' = extraer_digitos(u, k)
    /\ pc' = "clasif"
    /\ UNCHANGED <<numeros, k, u, cat, clasificaciones, conteo, esperadas,
                   contribuciones, chi2, idx, gl, resultado, chi2_crit,
                   decision, error>>

\* cat = clasificar_poker(d)  (line 81)
ClasificarPoker ==
    /\ pc = "clasif"
    /\ cat' = clasificar_poker(d)
    /\ pc' = "clasificado"
    /\ UNCHANGED <<numeros, k, u, d, clasificaciones, conteo, esperadas,
                   contribuciones, chi2, idx, gl, resultado, chi2_crit,
                   decision, error>>

\* clasificaciones.append((u, cat))  (line 82)
Anotar ==
    /\ pc = "clasificado"
    /\ clasificaciones' = Append(clasificaciones, <<u, cat>>)
    /\ pc' = "bucle"
    /\ UNCHANGED <<numeros, k, u, d, cat, conteo, esperadas,
                   contribuciones, chi2, idx, gl, resultado, chi2_crit,
                   decision, error>>

\* lines 85-88: Counter over the assigned categories, then setdefault(cat, 0)
FrecuenciasObservadas ==
    /\ pc = "bucle"
    /\ Len(clasificaciones) = Len(numeros)
    /\ conteo' = [c \in {clasificaciones[j][2] : j \in 1..Len(clasificaciones)}
                          \cup DOMAIN PROBS |->
                    Cardinality({j \in 1..Len(clasificaciones) :
                                    clasificaciones[j][2] = c})]
    /\ pc' = "esperadas"
    /\ UNCHANGED <<numeros, k, u, d, cat, clasificaciones, esperadas,
                   contribuciones, chi2, idx, gl, resultado, chi2_crit,
                   decision, error>>

\* lines 91-95: esperadas = {cat: n * p}; chi2 = 0.0; contribuciones = {}
FrecuenciasEsperadas ==
    /\ pc = "esperadas"
    /\ esperadas' = [c \in DOMAIN PROBS |-> RatOf(Len(numeros) * PROBS[c], ESCALA)]
    /\ chi2' = Zero
    /\ contribuciones' = NoFn
    /\ idx' = 1
    /\ pc' = "chi2"
    /\ UNCHANGED <<numeros, k, u, d, cat, clasificaciones, conteo,
                   gl, resultado, chi2_crit, decision, error>>

\* lines 96-101: one iteration of the loop over PROBS.keys()
ChiCuadrado ==
    /\ pc = "chi2"
    /\ idx <= Len(CATS)
    /\ LET c == Contribucion(conteo[CATS[idx]], esperadas[CATS[idx]])
       IN  IF c = Raises
           THEN /\ error' = "ZeroDivisionError"
                /\ pc' = "raised"
                /\ UNCHANGED <<cat, chi2, contribuciones, idx>>
           ELSE /\ cat' = CATS[idx]
                /\ chi2' = RatAdd(chi2, c)
                /\ contribuciones' =
                       [x \in DOMAIN contribuciones \cup {CATS[idx]} |->
                           IF x = CATS[idx] THEN c ELSE contribuciones[x]]
                /\ idx' = idx + 1
                /\ UNCHANGED <<pc, error>>
    /\ UNCHANGED <<numeros, k, u, d, clasificaciones, conteo, esperadas,
                   gl, resultado, chi2_crit, decision>>

\* lines 103-111
Retornar ==
    /\ pc = "chi2"
    /\ idx > Len(CATS)
    /\ gl' = GradosDeLibertad
    /\ resultado' = <<[clasificaciones |-> clasificaciones,
                       observadas      |-> conteo,
                       esperadas       |-> esperadas,
                       contribuciones  |-> contribuciones,
                       chi2            |-> chi2,
                       gl              |-> GradosDeLibertad]>>
    /\ pc' = "returned"
    /\ UNCHANGED <<numeros, k, u, d, cat, clasificaciones, conteo, esperadas,
                   contribuciones, chi2, idx, chi2_crit, decision, error>>

(***************************************************************************)
(* The report                                                              *)
(***************************************************************************)
\* chi2_crit = imprimir_tabla_criticos(resultado["gl"])
ImprimirTablaCriticos ==
    /\ pc = "returned"
    /\ chi2_crit' = RatOf(CHI2_CRITICO_95_G6, ESCALA)
    /\ pc' = "criticos"
    /\ UNCHANGED <<numeros, k, u, d, cat, clasificaciones, conteo, esperadas,
                   contribuciones, chi2, idx, gl, resultado, decision, error>>

\* imprimir_resultado(resultado["chi2"], chi2_crit, resultado["gl"])
ImprimirResultado ==
    /\ pc = "criticos"
    /\ decision' = Decision(chi2, chi2_crit)
    /\ pc' = "fin"
    /\ UNCHANGED <<numeros, k, u, d, cat, clasificaciones, conteo, esperadas,
                   contribuciones, chi2, idx, gl, resultado, chi2_crit, error>>

Next ==
    \/ TomarNumero
    \/ ExtraerDigitos
    \/ ClasificarPoker
    \/ Anotar
    \/ FrecuenciasObservadas
    \/ FrecuenciasEsperadas
    \/ ChiCuadrado
    \/ Retornar
    \/ ImprimirTablaCriticos
    \/ ImprimirResultado

Spec == Init /\ [][Next]_vars

(***************************************************************************)
(* extraer_digitos alone, over the numbers a/Den and the three lengths     *)
(***************************************************************************)
InitExtraer ==
    /\ numeros = <<>>
    /\ k \in ValidKs
    /\ pc = "extraer"
    /\ u \in {<<a, Den>> : a \in 0..(Den - 1)}
    /\ d = <<>> /\ cat = ""
    /\ clasificaciones = <<>>
    /\ conteo = NoFn /\ esperadas = NoFn /\ contribuciones = NoFn
    /\ chi2 = Zero /\ idx = 1 /\ gl = 0
    /\ resultado = <<>> /\ chi2_crit = Zero /\ decision = "" /\ error = ""

NextExtraer == ExtraerDigitos

SpecExtraer == InitExtraer /\ [][NextExtraer]_vars

(***************************************************************************)
(* clasificar_poker alone, over every digit string of length 3, 4 and 5    *)
(***************************************************************************)
DigitStrings(n) == [1..n -> 0..9]

InitClasificar ==
    /\ numeros = <<>>
    /\ k \in ValidKs
    /\ pc = "clasif"
    /\ u = <<0, 1>>
    /\ d \in DigitStrings(k)
    /\ cat = ""
    /\ clasificaciones = <<>>
    /\ conteo = NoFn /\ esperadas = NoFn /\ contribuciones = NoFn
    /\ chi2 = Zero /\ idx = 1 /\ gl = 0
    /\ resultado = <<>> /\ chi2_crit = Zero /\ decision = "" /\ error = ""

NextClasificar == ClasificarPoker

SpecClasificar == InitClasificar /\ [][NextClasificar]_vars

(***************************************************************************)
(* The report alone, over statistics around the critical value             *)
(***************************************************************************)
InitResultado ==
    /\ numeros = <<>>
    /\ k = DECIMALES
    /\ pc = "returned"
    /\ u = <<0, 1>> /\ d = <<>> /\ cat = ""
    /\ clasificaciones = <<>>
    /\ conteo = NoFn /\ esperadas = NoFn /\ contribuciones = NoFn
    /\ chi2 \in {RatOf(CHI2_CRITICO_95_G6 + x, ESCALA) : x \in (0 - ChiSpan)..ChiSpan}
    /\ idx = Len(CATS) + 1
    /\ gl = GradosDeLibertad
    /\ resultado = <<>> /\ chi2_crit = Zero /\ decision = "" /\ error = ""

NextResultado == ImprimirTablaCriticos \/ ImprimirResultado

SpecResultado == InitResultado /\ [][NextResultado]_vars

(***************************************************************************)
(* Properties                                                              *)
(***************************************************************************)
CatSet5 == {"todos_distintos", "un_par", "dos_pares", "tercia",
            "full_house", "poker", "quintilla"}
CatSet4 == {"todos_distintos", "un_par", "dos_pares", "tercia", "poker"}
CatSet3 == {"todos_distintos", "un_par", "tercia"}

CategorySet(n) == IF n = 5 THEN CatSet5 ELSE IF n = 4 THEN CatSet4 ELSE CatSet3

\* the number of distinct digits of s and the largest number of equal digits
Distinct(s) == Cardinality({s[j] : j \in 1..Len(s)})
MaxEqual(s) ==
    CHOOSE m \in 1..Len(s) :
        /\ \E j \in 1..Len(s) : Cardinality({i \in 1..Len(s) : s[i] = s[j]}) = m
        /\ \A j \in 1..Len(s) : Cardinality({i \in 1..Len(s) : s[i] = s[j]}) <= m

\* the hand of a five-digit string, from the two numbers above
Hand5(s) ==
    CASE Distinct(s) = 5 -> "todos_distintos"
      [] Distinct(s) = 4 -> "un_par"
      [] Distinct(s) = 3 /\ MaxEqual(s) = 2 -> "dos_pares"
      [] Distinct(s) = 3 /\ MaxEqual(s) = 3 -> "tercia"
      [] Distinct(s) = 2 /\ MaxEqual(s) = 3 -> "full_house"
      [] Distinct(s) = 2 /\ MaxEqual(s) = 4 -> "poker"
      [] Distinct(s) = 1 -> "quintilla"

RECURSIVE ValueOf(_)
ValueOf(s) == IF s = <<>> THEN 0 ELSE 10 * ValueOf(SubSeq(s, 1, Len(s) - 1)) + s[Len(s)]

\* C1 as stated: every digit string of length 3, 4 or 5 gets a category of
\* the category set of its length.
C1_Original ==
    pc = "clasificado" => cat \in CategorySet(Len(d))

\* C1, amended: a string of 5 digits gets exactly one of the 7 five-digit
\* categories; a string of 3 or 4 digits gets no category of its set.
C1_Total5 ==
    pc = "clasificado" =>
        /\ Len(d) = 5 => cat \in CatSet5
        /\ Len(d) \in {3, 4} => cat \notin CategorySet(Len(d))

C1_Witness == pc = "clasificado" /\ Len(d) = 4 /\ cat = "otra"

\* C3: the category of a 5-digit string is the one its repetition pattern
\* determines, whatever the digits and their positions; "00000" is
\* quintilla, "12345" is todos_distintos and "11223" is dos_pares.
C3_PatternCategory ==
    (pc = "clasificado" /\ Len(d) = 5) =>
        /\ cat = Hand5(d)
        /\ d = <<0, 0, 0, 0, 0>> => cat = "quintilla"
        /\ d = <<1, 2, 3, 4, 5>> => cat = "todos_distintos"
        /\ d = <<1, 1, 2, 2, 3>> => cat = "dos_pares"

C3_Witness == pc = "clasificado" /\ d = <<1, 1, 2, 2, 3>> /\ cat = "dos_pares"

Returned == Len(resultado) = 1

RECURSIVE SumOver(_, _)
SumOver(f, S) ==
    IF S = {} THEN 0
    ELSE LET x == CHOOSE y \in S : TRUE IN f[x] + SumOver(f, S \ {x})

RECURSIVE RatSum(_, _)
RatSum(f, n) == IF n = 0 THEN Zero ELSE RatAdd(RatSum(f, n - 1), f[CATS[n]])

\* C2 as stated: for every digit_length in {3,4,5} the observed counts of the
\* categories that have an expected count and a contribution sum to n.
C2_ObservedSum ==
    (Returned /\ k \in ValidKs) =>
        SumOver(resultado[1].observadas, DOMAIN resultado[1].esperadas) = Len(numeros)

\* C5: with digit_length 5 and n >= 1, for each of the 7 categories
\* expected = n * p and contribution = (observed - expected)^2 / expected,
\* observed is the number of inputs classified into the category, and chi2
\* is the sum of the 7 contributions.
C5_ChiSquared ==
    (Returned /\ k = 5 /\ Len(numeros) >= 1) =>
        LET r == resultado[1]
            n == Len(numeros)
        IN  /\ DOMAIN r.esperadas = CatSet5
            /\ DOMAIN r.contribuciones = CatSet5
            /\ \A c \in CatSet5 :
                 LET o    == r.observadas[c]
                     e    == r.esperadas[c]
                     x    == r.contribuciones[c]
                     dif  == ESCALA * o - n * PROBS[c]
                     cden == ESCALA * n * PROBS[c]
                 IN  /\ o = Cardinality({j \in 1..n :
                                Hand5(extraer_digitos(numeros[j], 5)) = c})
                     \* e = n * p
                     /\ ESCALA % e.den = 0
                     /\ e.int * ESCALA + e.num * (ESCALA \div e.den) = n * PROBS[c]
                     \* x = dif^2 / cden
                     /\ x.den > 0
                     /\ cden % x.den = 0
                     /\ x.int = (dif * dif) \div cden
                     /\ x.num * (cden \div x.den) = (dif * dif) % cden
            /\ r.chi2 = RatSum(r.contribuciones, Len(CATS))

C5_Witness ==
    /\ Returned /\ k = 5 /\ Len(numeros) = 3
    /\ resultado[1].observadas["quintilla"] = 1
    /\ resultado[1].observadas["un_par"] = 2
    /\ RatPos(resultado[1].chi2)

\* C6 as stated: the verdict is 'pass' exactly when the statistic is
\* strictly less than the critical value.
C6_Strict ==
    pc = "fin" =>
        (decision = "no_se_rechaza" <=>
            chi2.int * ESCALA + chi2.num * (ESCALA \div chi2.den) < CHI2_CRITICO_95_G6)

\* C6, amended: the verdict is 'pass' exactly when the statistic is less
\* than or equal to the critical value; equality yields 'pass'.
C6_NonStrict ==
    pc = "fin" =>
        /\ ESCALA % chi2.den = 0
        /\ decision = "no_se_rechaza" <=>
             chi2.int * ESCALA + chi2.num * (ESCALA \div chi2.den) <= 125916
        /\ decision \in {"no_se_rechaza", "se_rechaza"}

C6_Witness ==
    /\ pc = "fin" /\ decision = "no_se_rechaza"
    /\ chi2 = [int |-> 12, num |-> 1479, den |-> 2500]

\* C7 as stated: gl and the critical value are those of the digit_length:
\* 3 -> 2 and 5.991, 4 -> 4 and 9.488, 5 -> 6 and 12.5916.
C7_PerLength ==
    (pc \in {"criticos", "fin"} /\ k \in ValidKs) =>
        /\ gl = Cardinality(CategorySet(k)) - 1
        /\ chi2_crit = (CASE k = 3 -> [int |-> 5, num |-> 991, den |-> 1000]
                          [] k = 4 -> [int |-> 9, num |-> 61, den |-> 125]
                          [] k = 5 -> [int |-> 12, num |-> 1479, den |-> 2500])

\* C7, amended: every run uses gl = 6 and the critical value 12.5916,
\* whatever its digit_length; this is the number of categories minus one
\* of digit_length 5.
C7_Fixed ==
    /\ Returned => (gl = 6 /\ resultado[1].gl = 6 /\ gl = Cardinality(CatSet5) - 1)
    /\ pc \in {"criticos", "fin"} =>
          /\ chi2_crit.int = 12
          /\ chi2_crit.num * 2500 = 1479 * chi2_crit.den

C7_Witness == pc = "criticos" /\ k = 3 /\ gl = 6 /\ Len(numeros) = 2

\* C8 as stated: a digit string whose pattern matches no table entry is
\* never given a default category, and no returned result counts it.
C8_NoDefault ==
    /\ \A j \in 1..Len(clasificaciones) : clasificaciones[j][2] \in DOMAIN PROBS
    /\ Returned =>
          \A j \in 1..Len(numeros) :
              Rep(extraer_digitos(numeros[j], k)) \in
                  {<<1, 1, 1, 1, 1>>, <<2, 1, 1, 1>>, <<2, 2, 1>>, <<3, 1, 1>>,
                   <<3, 2>>, <<4, 1>>, <<5>>}

\* C9 as stated: with a digit_length outside {3,4,5} nothing is extracted or
\* classified and no result is returned.
C9_Rejected ==
    k \notin ValidKs =>
        /\ pc \notin {"extraer", "clasif", "clasificado"}
        /\ clasificaciones = <<>>
        /\ ~Returned

\* C10: with n = 0 no division by zero happens: every expected count, every
\* contribution and the statistic are 0, and every category is present in
\* the observed counts with count 0.
C10_EmptyInput ==
    numeros = <<>> =>
        /\ error # "ZeroDivisionError"
        /\ pc # "raised"
        /\ Returned =>
              /\ resultado[1].chi2 = Zero
              /\ DOMAIN resultado[1].observadas = CatSet5
              /\ \A c \in CatSet5 :
                    /\ resultado[1].observadas[c] = 0
                    /\ resultado[1].esperadas[c] = Zero
                    /\ resultado[1].contribuciones[c] = Zero

C10_Witness == numeros = <<>> /\ Returned /\ pc = "fin" /\ k = 5

====
